---- MODULE Spec2Model ----
(***************************************************************************)
(* Model of migrate_errors.py: the one-time migration of Scala sources to  *)
(* the SzorkResult error handling.  File contents and paths are strings,   *)
(* handled character by character: substring tests, str.split/join,        *)
(* str.lower and the three re.sub patterns are computed as Python computes *)
(* them.  The driver (main / migrate_file) is a state machine over a small *)
(* directory tree.                                                         *)
(***************************************************************************)
EXTENDS Integers, Sequences, FiniteSets

(***************************************************************************)
(* Bounds of the model.                                                    *)
(***************************************************************************)
\* number of source lines (fragments) a file of a one-file tree is built from
MaxFrags == 3
\* number of files of a many-file tree
MaxFiles == 2
\* number of times the tool is run over the same tree
MaxRuns == 2

(***************************************************************************)
(* Strings.                                                                *)
(***************************************************************************)
NL == "\n"

Ch(s, i) == SubSeq(s, i, i)

\* s[i-1:].startswith(pat), i counted from 1
MatchAt(s, pat, i) ==
    /\ i >= 1
    /\ i + Len(pat) - 1 <= Len(s)
    /\ SubSeq(s, i, i + Len(pat) - 1) = pat

\* Python: pat in s
Contains(s, pat) == \E i \in 1..(Len(s) - Len(pat) + 1) : MatchAt(s, pat, i)

\* Python: s.startswith(pat)
StartsWith(s, pat) == MatchAt(s, pat, 1)

\* Python: s.endswith(pat)
EndsWith(s, pat) == MatchAt(s, pat, Len(s) - Len(pat) + 1)

SetMax(S) == CHOOSE x \in S : \A y \in S : y <= x
SetMin(S) == CHOOSE x \in S : \A y \in S : x <= y

\* first index >= i at which pat occurs in s, 0 when there is none
Find(s, pat, i) ==
    LET M == {k \in i..(Len(s) - Len(pat) + 1) : MatchAt(s, pat, k)}
    IN  IF M = {} THEN 0 ELSE SetMin(M)

UpperLetters == "ABCDEFGHIJKLMNOPQRSTUVWXYZ"
LowerLetters == "abcdefghijklmnopqrstuvwxyz"

LowerCh(c) ==
    LET K == {k \in 1..Len(UpperLetters) : Ch(UpperLetters, k) = c}
    IN  IF K = {} THEN c ELSE Ch(LowerLetters, CHOOSE k \in K : TRUE)

\* Python: s.lower()
RECURSIVE lower(_)
lower(s) ==
    IF Len(s) = 0 THEN ""
    ELSE LowerCh(Ch(s, 1)) \o lower(SubSeq(s, 2, Len(s)))

\* Python: s.split('\n'), a sequence of strings
RECURSIVE split(_)
split(s) ==
    LET n == Find(s, NL, 1)
    IN  IF n = 0 THEN <<s>>
        ELSE <<SubSeq(s, 1, n - 1)>> \o split(SubSeq(s, n + 1, Len(s)))

\* Python: '\n'.join(lines)
RECURSIVE join(_)
join(lines) ==
    IF Len(lines) = 0 THEN ""
    ELSE IF Len(lines) = 1 THEN lines[1]
    ELSE lines[1] \o NL \o join(Tail(lines))

\* Python: lines.insert(i, x), i counted from 0
insert(lines, i, x) ==
    IF i >= Len(lines) THEN Append(lines, x)
    ELSE SubSeq(lines, 1, i) \o <<x>> \o SubSeq(lines, i + 1, Len(lines))

\* the characters the regular expression class \s matches
Whitespace == {" ", "\t", NL, "\r", "\f"}

\* the end of a greedy \s* starting at i: first index >= i that is no whitespace
RECURSIVE SkipWs(_, _)
SkipWs(s, i) ==
    IF i > Len(s) THEN i
    ELSE IF Ch(s, i) \in Whitespace THEN SkipWs(s, i + 1)
    ELSE i

(***************************************************************************)
(* add_imports                                                             *)
(***************************************************************************)
SentinelImport == "import org.llm4s.szork.error._"
HandlingImport == "import org.llm4s.szork.error.ErrorHandling._"

\* the indices (from 0, as enumerate gives them) of the lines that start
\* with 'import '
import_lines(content) ==
    LET lines == split(content)
    IN  {i \in 0..(Len(lines) - 1) : StartsWith(lines[i + 1], "import ")}

\* the index used as the insertion anchor, import_lines[-1]
last_import_idx(content) == SetMax(import_lines(content))

\* the else branch: after the first line that starts with 'package '
AddAfterPackage(content) ==
    LET lines == split(content)
        P == {i \in 0..(Len(lines) - 1) : StartsWith(lines[i + 1], "package ")}
    IN  IF P = {} THEN join(lines)
        ELSE LET i == SetMin(P)
                 l1 == insert(lines, i + 1, "")
                 l2 == insert(l1, i + 2, SentinelImport)
                 l3 == insert(l2, i + 3, HandlingImport)
             IN  join(l3)

\* a variant that anchors on the first import line instead of the last
add_imports_first(content) ==
    IF ~Contains(content, SentinelImport)
    THEN IF import_lines(content) # {}
         THEN LET idx == SetMin(import_lines(content))
                  lines == split(content)
                  l1 == insert(lines, idx + 1, SentinelImport)
                  l2 == insert(l1, idx + 2, HandlingImport)
              IN  join(l2)
         ELSE AddAfterPackage(content)
    ELSE content

add_imports(content) ==
    IF ~Contains(content, SentinelImport)
    THEN IF import_lines(content) # {}
         THEN LET idx == last_import_idx(content)
                  lines == split(content)
                  l1 == insert(lines, idx + 1, SentinelImport)
                  l2 == insert(l1, idx + 2, HandlingImport)
              IN  join(l2)
         ELSE AddAfterPackage(content)
    ELSE content

(***************************************************************************)
(* The substitutions of migrate_file                                       *)
(***************************************************************************)
EitherString == "Either[String,"
EitherList == "Either[List[String],"

\* a variant without the early return of line 57
needs_migration_unchecked(content) == TRUE

\* Classifier: the file needs migration
needs_migration(content) ==
    Contains(content, EitherString) \/ Contains(content, EitherList)

\* :\s*<head>\s*([^]]+)\]  tried at index i: the index of the closing ']' of
\* the match, 0 when the pattern does not match at i
SigEnd(s, i, head) ==
    IF ~MatchAt(s, ":", i) THEN 0
    ELSE LET j == SkipWs(s, i + 1)
         IN  IF ~MatchAt(s, head, j) THEN 0
             ELSE LET e == j + Len(head)
                      r == Find(s, "]", e)
                  IN  IF r = 0 \/ r = e THEN 0 ELSE r

\* group 1 of that match: \s* is greedy but leaves [^]]+ one character
SigGroup(s, i, head) ==
    LET j == SkipWs(s, i + 1)
        e == j + Len(head)
        r == SigEnd(s, i, head)
        g == SkipWs(s, e)
    IN  SubSeq(s, IF g >= r THEN r - 1 ELSE g, r - 1)

\* re.sub(r':\s*<head>\s*([^]]+)\]', r': SzorkResult[\1]', s), from pos on
RECURSIVE SubSigFrom(_, _, _)
SubSigFrom(s, pos, head) ==
    LET M == {i \in pos..Len(s) : SigEnd(s, i, head) > 0}
    IN  IF M = {} THEN SubSeq(s, pos, Len(s))
        ELSE LET i == SetMin(M)
             IN  SubSeq(s, pos, i - 1) \o ": SzorkResult[" \o SigGroup(s, i, head)
                    \o "]" \o SubSigFrom(s, SigEnd(s, i, head) + 1, head)

\* lines 63-64
ReplaceSignatures(content) ==
    SubSigFrom(SubSigFrom(content, 1, EitherString), 1, EitherList)

\* Left\(([^)]+)\) tried at index i: the index of the closing ')', or 0
LeftEnd(s, i) ==
    IF ~MatchAt(s, "Left(", i) THEN 0
    ELSE LET e == i + 5
             r == Find(s, ")", e)
         IN  IF r = 0 \/ r = e THEN 0 ELSE r

\* re.sub(r'Left\(([^)]+)\)', pre \1 post, s), from pos on
RECURSIVE SubLeftFrom(_, _, _, _)
SubLeftFrom(s, pos, pre, post) ==
    LET M == {i \in pos..Len(s) : LeftEnd(s, i) > 0}
    IN  IF M = {} THEN SubSeq(s, pos, Len(s))
        ELSE LET i == SetMin(M)
                 r == LeftEnd(s, i)
             IN  SubSeq(s, pos, i - 1) \o pre \o SubSeq(s, i + 5, r - 1) \o post
                    \o SubLeftFrom(s, r + 1, pre, post)

\* a variant that replaces the first match only (count=1)
SubLeftOnce(s, pre, post) ==
    LET M == {i \in 1..Len(s) : LeftEnd(s, i) > 0}
    IN  IF M = {} THEN s
        ELSE LET i == SetMin(M)
                 r == LeftEnd(s, i)
             IN  SubSeq(s, 1, i - 1) \o pre \o SubSeq(s, i + 5, r - 1) \o post
                    \o SubSeq(s, r + 1, Len(s))

SubLeft(s, pre, post) == SubLeftFrom(s, 1, pre, post)

\* a variant of the chain that tests network/api before the other categories
ReplaceLeftNetworkFirst(content, filepath) ==
    LET p == lower(filepath)
    IN  IF Contains(p, "network") \/ Contains(p, "api")
        THEN SubLeft(content, "Left(NetworkError(", ", \"service\"))")
        ELSE IF Contains(p, "save") \/ Contains(p, "persistence")
        THEN SubLeft(content, "Left(PersistenceError(", ", \"operation\"))")
        ELSE IF Contains(p, "parse") \/ Contains(p, "parser")
        THEN SubLeft(content, "Left(ParseError(", "))")
        ELSE IF Contains(p, "valid")
        THEN SubLeft(content, "Left(ValidationError(List(", ")))")
        ELSE IF Contains(p, "music")
        THEN SubLeft(content, "Left(MusicGenerationError(", "))")
        ELSE IF Contains(p, "tts") \/ Contains(p, "speech")
        THEN SubLeft(content, "Left(AudioGenerationError(", "))")
        ELSE IF Contains(p, "image")
        THEN SubLeft(content, "Left(ImageGenerationError(", "))")
        ELSE SubLeft(content, "Left(GameStateError(", "))")

\* lines 66-95: the if/elif chain over filepath.lower()
ReplaceLeft(content, filepath) ==
    LET p == lower(filepath)
    IN  IF Contains(p, "save") \/ Contains(p, "persistence")
        THEN SubLeft(content, "Left(PersistenceError(", ", \"operation\"))")
        ELSE IF Contains(p, "parse") \/ Contains(p, "parser")
        THEN SubLeft(content, "Left(ParseError(", "))")
        ELSE IF Contains(p, "valid")
        THEN SubLeft(content, "Left(ValidationError(List(", ")))")
        ELSE IF Contains(p, "music")
        THEN SubLeft(content, "Left(MusicGenerationError(", "))")
        ELSE IF Contains(p, "tts") \/ Contains(p, "speech")
        THEN SubLeft(content, "Left(AudioGenerationError(", "))")
        ELSE IF Contains(p, "image")
        THEN SubLeft(content, "Left(ImageGenerationError(", "))")
        ELSE IF Contains(p, "network") \/ Contains(p, "api")
        THEN SubLeft(content, "Left(NetworkError(", ", \"service\"))")
        ELSE SubLeft(content, "Left(GameStateError(", "))")

LoggerDecl == "private val logger = LoggerFactory"
ImplicitLoggerDecl == "private implicit val logger = LoggerFactory"

\* line 98: re.sub of a literal pattern
RECURSIVE SubLoggerFrom(_, _)
SubLoggerFrom(s, pos) ==
    LET i == Find(s, LoggerDecl, pos)
    IN  IF i = 0 THEN SubSeq(s, pos, Len(s))
        ELSE SubSeq(s, pos, i - 1) \o ImplicitLoggerDecl
                \o SubLoggerFrom(s, i + Len(LoggerDecl))

ImplicitLogger(content) == SubLoggerFrom(content, 1)

\* a variant that excludes SzorkError.scala only
IsErrorHandlingFileFirstOnly(filepath) ==
    Contains(filepath, "error/SzorkError.scala")

\* line 43: the files migrate_file refuses to touch
IsErrorHandlingFile(filepath) ==
    Contains(filepath, "error/SzorkError.scala")
        \/ Contains(filepath, "error/ErrorHandling.scala")

\* a variant that writes back whatever the content
changed_always(content, original_content) == TRUE

\* line 101: write back only if changed
changed(content, original_content) == content # original_content

\* line 116: the files the walk hands to migrate_file
is_scala(file) == EndsWith(file, ".scala")

\* lines 125-130
manual_review ==
    <<"TypedWebSocketServer.scala", "SzorkServer.scala", "StreamingAgent.scala",
      "GameTools.scala">>

(***************************************************************************)
(* The inputs: directory trees under src/main/scala                        *)
(***************************************************************************)
src_dir == "src/main/scala"

Paths ==
    { src_dir \o "/error/SzorkError.scala",
      src_dir \o "/error/ErrorHandling.scala",
      src_dir \o "/util/ErrorHandling.scala",
      src_dir \o "/persistence/Store.scala",
      src_dir \o "/SaveGame.scala",
      src_dir \o "/net/NetworkParser.scala",
      src_dir \o "/Validator.scala",
      src_dir \o "/MusicApi.scala",
      src_dir \o "/TTSClient.scala",
      src_dir \o "/ImageGen.scala",
      src_dir \o "/ApiClient.scala",
      src_dir \o "/Game.scala",
      src_dir \o "/notes.md" }

\* the source lines file contents are built from, in the order they are kept
Frags ==
    << "package a\n",
       "import b\n",
       "import org.llm4s.szork.error.ErrorHandling._\n",
       "private val logger = LoggerFactory\n",
       "def s(x: Int): Either[String, Unit] = Left(\"boom\")\n",
       "type R = Either[String, Int]\n",
       "val v: Either[List[String], Int] = Left(f(y))\n",
       "Left(e)\n",
       "Left(Left(a) b)\n" >>

\* the concatenation of the fragments picked by the index set S, in order
RECURSIVE Concat(_, _)
Concat(S, k) ==
    IF k > Len(Frags) THEN ""
    ELSE (IF k \in S THEN Frags[k] ELSE "") \o Concat(S, k + 1)

Contents ==
    {Concat(S, 1) : S \in {T \in SUBSET (1..Len(Frags)) : Cardinality(T) <= MaxFrags}}

\* the files of the many-file trees
SmallPaths ==
    { src_dir \o "/error/SzorkError.scala",
      src_dir \o "/util/ErrorHandling.scala",
      src_dir \o "/persistence/Store.scala",
      src_dir \o "/notes.md" }

SmallContents == {"", Frags[5], Frags[8]}

VARIABLES
    paths,              \* the files of the tree, in the order os.walk yields them
    fs,                 \* fs[i]: the text of file paths[i] on disk
    run,                \* which run of the tool this is
    pc,                 \* where main / migrate_file stands
    idx,                \* the file the walk is at (0 before the first)
    content,            \* migrate_file's local
    original_content,   \* migrate_file's local
    ret,                \* what migrate_file returned
    migrated_count,     \* main's counter
    out,                \* what was printed in this run
    io,                 \* the files opened in this run: <<"r" or "w", index>>
    raised              \* an I/O error left migrate_file and main

vars == <<paths, fs, run, pc, idx, content, original_content, ret,
          migrated_count, out, io, raised>>

filepath == paths[idx]

Start ==
    /\ run = 1
    /\ pc = "walk"
    /\ idx = 0
    /\ content = ""
    /\ original_content = ""
    /\ ret = FALSE
    /\ migrated_count = 0
    /\ out = <<>>
    /\ io = <<>>
    /\ raised = FALSE

\* a tree of one file, of any path and content
InitOne ==
    /\ \E p \in Paths : paths = <<p>>
    /\ \E c \in Contents : fs = <<c>>
    /\ Start

\* a tree of several of the small files, all of different paths
InitMany ==
    /\ paths \in [1..MaxFiles -> SmallPaths]
    /\ \A i, j \in 1..MaxFiles : i # j => paths[i] # paths[j]
    /\ fs \in [1..MaxFiles -> SmallContents]
    /\ Start

Init == InitOne \/ InitMany

(***************************************************************************)
(* main: lines 109-132                                                     *)
(***************************************************************************)
\* lines 114-118: the walk reaches a .scala file and calls migrate_file
WalkScala ==
    /\ pc = "walk"
    /\ idx < Len(paths)
    /\ is_scala(paths[idx + 1])
    /\ idx' = idx + 1
    /\ pc' = "migrate_file"
    /\ UNCHANGED <<paths, fs, run, content, original_content, ret,
                   migrated_count, out, io, raised>>

\* lines 114-116: any other file is passed over
WalkOther ==
    /\ pc = "walk"
    /\ idx < Len(paths)
    /\ ~is_scala(paths[idx + 1])
    /\ idx' = idx + 1
    /\ UNCHANGED <<paths, fs, run, pc, content, original_content, ret,
                   migrated_count, out, io, raised>>

\* lines 118-119
Count ==
    /\ pc = "returned"
    /\ migrated_count' = IF ret THEN migrated_count + 1 ELSE migrated_count
    /\ pc' = "walk"
    /\ UNCHANGED <<paths, fs, run, idx, content, original_content, ret, out,
                   io, raised>>

\* lines 121-132: the summary and the fixed review list
Complete ==
    /\ pc = "walk"
    /\ idx = Len(paths)
    /\ out' = out \o <<(<<"complete", migrated_count>>)>>
                  \o [k \in 1..Len(manual_review) |-> <<"review", manual_review[k]>>]
    /\ pc' = "done"
    /\ UNCHANGED <<paths, fs, run, idx, content, original_content, ret,
                   migrated_count, io, raised>>

\* the operator runs the tool again over the same tree
RunAgain ==
    /\ pc = "done"
    /\ run < MaxRuns
    /\ run' = run + 1
    /\ pc' = "walk"
    /\ idx' = 0
    /\ content' = ""
    /\ original_content' = ""
    /\ ret' = FALSE
    /\ migrated_count' = 0
    /\ out' = <<>>
    /\ io' = <<>>
    /\ UNCHANGED <<paths, fs, raised>>

(***************************************************************************)
(* migrate_file: lines 39-107                                              *)
(***************************************************************************)
\* lines 43-44
SkipErrorHandlingFile ==
    /\ pc = "migrate_file"
    /\ IsErrorHandlingFile(filepath)
    /\ ret' = FALSE
    /\ pc' = "returned"
    /\ UNCHANGED <<paths, fs, run, idx, content, original_content,
                   migrated_count, out, io, raised>>

\* lines 46-49
ReadFile ==
    /\ pc = "migrate_file"
    /\ ~IsErrorHandlingFile(filepath)
    /\ io' = Append(io, <<"r", idx>>)
    /\ content' = fs[idx]
    /\ original_content' = fs[idx]
    /\ pc' = "classify"
    /\ UNCHANGED <<paths, fs, run, idx, ret, migrated_count, out, raised>>

\* a variant in which migrate_file catches the error and returns False
ReadFailsCaught ==
    /\ pc = "migrate_file"
    /\ ~IsErrorHandlingFile(filepath)
    /\ raised' = TRUE
    /\ ret' = FALSE
    /\ pc' = "returned"
    /\ UNCHANGED <<paths, fs, run, idx, content, original_content,
                   migrated_count, out, io>>

\* lines 46-47 raise: nothing catches the error
ReadFails ==
    /\ pc = "migrate_file"
    /\ ~IsErrorHandlingFile(filepath)
    /\ raised' = TRUE
    /\ pc' = "halted"
    /\ UNCHANGED <<paths, fs, run, idx, content, original_content, ret,
                   migrated_count, out, io>>

\* lines 51-57, no legacy pattern
NotNeeded ==
    /\ pc = "classify"
    /\ ~needs_migration(content)
    /\ ret' = FALSE
    /\ pc' = "returned"
    /\ UNCHANGED <<paths, fs, run, idx, content, original_content,
                   migrated_count, out, io, raised>>

\* lines 51-57, a legacy pattern is there
Needed ==
    /\ pc = "classify"
    /\ needs_migration(content)
    /\ pc' = "add_imports"
    /\ UNCHANGED <<paths, fs, run, idx, content, original_content, ret,
                   migrated_count, out, io, raised>>

\* line 60
AddImports ==
    /\ pc = "add_imports"
    /\ content' = add_imports(content)
    /\ pc' = "signatures"
    /\ UNCHANGED <<paths, fs, run, idx, original_content, ret,
                   migrated_count, out, io, raised>>

\* lines 63-64
Signatures ==
    /\ pc = "signatures"
    /\ content' = ReplaceSignatures(content)
    /\ pc' = "left"
    /\ UNCHANGED <<paths, fs, run, idx, original_content, ret,
                   migrated_count, out, io, raised>>

\* lines 70-95
Left ==
    /\ pc = "left"
    /\ content' = ReplaceLeft(content, filepath)
    /\ pc' = "logger"
    /\ UNCHANGED <<paths, fs, run, idx, original_content, ret,
                   migrated_count, out, io, raised>>

\* line 98
Logger ==
    /\ pc = "logger"
    /\ content' = ImplicitLogger(content)
    /\ pc' = "write_back"
    /\ UNCHANGED <<paths, fs, run, idx, original_content, ret,
                   migrated_count, out, io, raised>>

\* lines 101-105
WriteBack ==
    /\ pc = "write_back"
    /\ changed(content, original_content)
    /\ io' = Append(io, <<"w", idx>>)
    /\ fs' = [fs EXCEPT ![idx] = content]
    /\ out' = Append(out, <<"Migrated", filepath>>)
    /\ ret' = TRUE
    /\ pc' = "returned"
    /\ UNCHANGED <<paths, run, idx, content, original_content,
                   migrated_count, raised>>

\* lines 102-103 raise: the file is left as it was, emptied by open(.., 'w'),
\* or written in full
WriteFails ==
    /\ pc = "write_back"
    /\ changed(content, original_content)
    /\ \E left \in {fs[idx], "", content} : fs' = [fs EXCEPT ![idx] = left]
    /\ raised' = TRUE
    /\ pc' = "halted"
    /\ UNCHANGED <<paths, run, idx, content, original_content, ret,
                   migrated_count, out, io>>

\* line 107
NoChange ==
    /\ pc = "write_back"
    /\ ~changed(content, original_content)
    /\ ret' = FALSE
    /\ pc' = "returned"
    /\ UNCHANGED <<paths, fs, run, idx, content, original_content,
                   migrated_count, out, io, raised>>

Next ==
    \/ WalkScala
    \/ WalkOther
    \/ Count
    \/ Complete
    \/ RunAgain
    \/ SkipErrorHandlingFile
    \/ ReadFile
    \/ ReadFails
    \/ NotNeeded
    \/ Needed
    \/ AddImports
    \/ Signatures
    \/ Left
    \/ Logger
    \/ WriteBack
    \/ WriteFails
    \/ NoChange

Spec == Init /\ [][Next]_vars

(***************************************************************************)
(* What the claims speak of                                                *)
(***************************************************************************)
\* the text holds one of the two legacy signatures
Legacy(s) == Contains(s, "Either[String,") \/ Contains(s, "Either[List[String],")

Opened(mode, i) == \E k \in 1..Len(io) : io[k] = <<mode, i>>

Writes == {k \in 1..Len(io) : io[k][1] = "w"}

\* the categories in their priority order, with the shape each gives Left(arg)
Rules ==
    << [kw |-> {"save", "persistence"},
        pre |-> "Left(PersistenceError(", post |-> ", \"operation\"))"],
       [kw |-> {"parse", "parser"},
        pre |-> "Left(ParseError(", post |-> "))"],
       [kw |-> {"valid"},
        pre |-> "Left(ValidationError(List(", post |-> ")))"],
       [kw |-> {"music"},
        pre |-> "Left(MusicGenerationError(", post |-> "))"],
       [kw |-> {"tts", "speech"},
        pre |-> "Left(AudioGenerationError(", post |-> "))"],
       [kw |-> {"image"},
        pre |-> "Left(ImageGenerationError(", post |-> "))"],
       [kw |-> {"network", "api"},
        pre |-> "Left(NetworkError(", post |-> ", \"service\"))"],
       [kw |-> {},
        pre |-> "Left(GameStateError(", post |-> "))"] >>

\* the first category a keyword of which is in the lowercased path; the last
\* one is the default
FirstRule(path) ==
    LET M == {k \in 1..(Len(Rules) - 1) :
                 \E w \in Rules[k].kw : Contains(lower(path), w)}
    IN  IF M = {} THEN Len(Rules) ELSE SetMin(M)

Shape(k, arg) == Rules[k].pre \o arg \o Rules[k].post

(***************************************************************************)
(* C1: running the migration twice on the same file changes nothing the    *)
(* second time: in the second run no file is written, the content          *)
(* migrate_file ends with is the content it read, and it returns False.    *)
(***************************************************************************)
C1_SecondRunIsNoOp ==
    run >= 2 =>
        /\ Writes = {}
        /\ pc = "write_back" => content = original_content
        /\ pc = "returned" => ~ret
        /\ migrated_count = 0

(***************************************************************************)
(* C2: when the content read holds Either[String, T], the content          *)
(* migrate_file produces holds SzorkResult[T] for each such T and holds    *)
(* Either[String, no more.                                                 *)
(***************************************************************************)
\* the success type of the signature that starts at i
SuccessType(s, i) ==
    LET e == i + Len(EitherString)
        r == Find(s, "]", e)
    IN  SubSeq(s, SkipWs(s, e), r - 1)

C2_SignatureRewritten ==
    (pc = "write_back" /\ Contains(original_content, EitherString)) =>
        /\ ~Contains(content, EitherString)
        /\ \A i \in 1..Len(original_content) :
              (/\ MatchAt(original_content, EitherString, i)
               /\ Find(original_content, "]", i) # 0)
              => Contains(content,
                    "SzorkResult[" \o SuccessType(original_content, i) \o "]")

(***************************************************************************)
(* C3: the failure rewrite applies exactly one rule, that of the first     *)
(* category, in the order save/persistence, parse/parser, valid, music,    *)
(* tts/speech, image, network/api, default, a keyword of which is in the   *)
(* lowercased path; no other category's wrapper is brought in.             *)
(***************************************************************************)
C3_FirstMatchWins ==
    [][(pc = "left" /\ pc' = "logger") =>
          LET k == FirstRule(filepath)
          IN  /\ content' = SubLeft(content, Rules[k].pre, Rules[k].post)
              /\ \A j \in 1..Len(Rules) :
                    (j # k /\ Contains(content', Rules[j].pre))
                    => Contains(content, Rules[j].pre)]_vars

C3_Witness ==
    /\ pc = "logger"
    /\ Contains(lower(filepath), "parse")
    /\ Contains(lower(filepath), "network")
    /\ Contains(content, "Left(ParseError(")
    /\ ~Contains(content, "NetworkError")

(***************************************************************************)
(* C4: for a content without the sentinel import and with a line that      *)
(* starts with 'import ', add_imports puts the sentinel import and then    *)
(* the ErrorHandling import right after the last such line, keeps every    *)
(* other line, in order, and applied again changes nothing.                *)
(***************************************************************************)
\* the places (from 1) of the lines of s that start with 'import '
ImportPlaces(s) ==
    {i \in 1..Len(split(s)) : StartsWith(split(s)[i], "import ")}

C4_Applies ==
    /\ pc = "signatures"
    /\ ~Contains(original_content, SentinelImport)
    /\ ImportPlaces(original_content) # {}

C4_ImportsAfterLastImport ==
    C4_Applies =>
        LET old == split(original_content)
            new == split(content)
            k == SetMax(ImportPlaces(original_content))
        IN  /\ Len(new) = Len(old) + 2
            /\ \A i \in 1..k : new[i] = old[i]
            /\ new[k + 1] = "import org.llm4s.szork.error._"
            /\ new[k + 2] = "import org.llm4s.szork.error.ErrorHandling._"
            /\ \A i \in (k + 1)..Len(old) : new[i + 2] = old[i]
            /\ add_imports(content) = content

C4_Witness ==
    /\ C4_Applies
    /\ Cardinality(ImportPlaces(original_content)) >= 2
    /\ SetMax(ImportPlaces(original_content)) < Len(split(original_content)) - 1
    /\ content # original_content

(***************************************************************************)
(* C5, as stated: a file named SzorkError.scala or ErrorHandling.scala is  *)
(* never modified, wherever it lies under the root.                        *)
(***************************************************************************)
ExcludedName(path) ==
    EndsWith(path, "/SzorkError.scala") \/ EndsWith(path, "/ErrorHandling.scala")

C5_NamedFilesNeverModified ==
    [][\A i \in 1..Len(paths) : ExcludedName(paths[i]) => fs'[i] = fs[i]]_vars

(***************************************************************************)
(* C5, amended: a file whose path holds error/SzorkError.scala or          *)
(* error/ErrorHandling.scala is never modified, whatever its content.      *)
(***************************************************************************)
ExcludedPath(path) ==
    Contains(path, "error/SzorkError.scala")
        \/ Contains(path, "error/ErrorHandling.scala")

C5_ErrorFilesNeverModified ==
    [][\A i \in 1..Len(paths) : ExcludedPath(paths[i]) => fs'[i] = fs[i]]_vars

C5_Witness ==
    /\ pc = "returned"
    /\ ExcludedPath(filepath)
    /\ EndsWith(filepath, "ErrorHandling.scala")
    /\ Legacy(fs[idx])
    /\ Contains(fs[idx], "Left(")
    /\ ~Opened("r", idx)

(***************************************************************************)
(* C6: a file that was processed is overwritten, and its path reported,    *)
(* exactly when the final content differs from the content read; the       *)
(* count printed at the end of a run is the number of files overwritten.   *)
(***************************************************************************)
Reported(path) == \E k \in 1..Len(out) : out[k] = <<"Migrated", path>>

C6_WriteIffChanged ==
    /\ (pc = "returned" /\ Opened("r", idx)) =>
          /\ Opened("w", idx) <=> (content # original_content)
          /\ Reported(filepath) <=> (content # original_content)
          /\ ret <=> (content # original_content)
          /\ fs[idx] = content
    /\ pc = "walk" => migrated_count = Cardinality(Writes)
    /\ pc = "done" =>
          /\ Len(out) = Cardinality(Writes) + 1 + Len(manual_review)
          /\ out[Cardinality(Writes) + 1] = <<"complete", Cardinality(Writes)>>

C6_Witness ==
    /\ pc = "done"
    /\ Cardinality(Writes) = 1
    /\ Len(io) = 3

(***************************************************************************)
(* C7, as stated: in a file that needs migration every Left(arg) is        *)
(* rewritten into the shape of the category of the path, arg verbatim.     *)
(***************************************************************************)
\* the index of the ')' that closes the '(' before j, 0 when there is none
RECURSIVE Closing(_, _, _)
Closing(s, j, depth) ==
    IF j > Len(s) THEN 0
    ELSE IF Ch(s, j) = "(" THEN Closing(s, j + 1, depth + 1)
    ELSE IF Ch(s, j) = ")"
         THEN IF depth = 0 THEN j ELSE Closing(s, j + 1, depth - 1)
    ELSE Closing(s, j + 1, depth)

C7_EveryLeftRewritten ==
    pc = "logger" =>
        \A i \in 1..Len(original_content) :
            (/\ MatchAt(original_content, "Left(", i)
             /\ Closing(original_content, i + 5, 0) > i + 5)
            => Contains(content,
                  Shape(FirstRule(filepath),
                        SubSeq(original_content, i + 5,
                               Closing(original_content, i + 5, 0) - 1)))

(***************************************************************************)
(* C7, amended: in a file that needs migration every Left(arg) whose arg   *)
(* is not empty and holds no parenthesis, line break, legacy signature or  *)
(* logger declaration, and which does not lie inside the argument of an    *)
(* earlier Left( that is still open, is rewritten into the shape of the    *)
(* category of the path, arg verbatim.                                     *)
(***************************************************************************)
SimpleLeft(s, i) ==
    /\ MatchAt(s, "Left(", i)
    /\ Find(s, ")", i + 5) > i + 5
    /\ LET arg == SubSeq(s, i + 5, Find(s, ")", i + 5) - 1)
       IN  /\ ~Contains(arg, "(")
           /\ ~Contains(arg, NL)
           /\ ~Contains(arg, "Either[")
           /\ ~Contains(arg, LoggerDecl)
    /\ \A q \in 1..(i - 1) : MatchAt(s, "Left(", q) => Find(s, ")", q + 5) < i

C7_SimpleLeftRewritten ==
    pc \in {"logger", "write_back"} =>
        \A i \in 1..Len(original_content) :
            SimpleLeft(original_content, i)
            => Contains(content,
                  Shape(FirstRule(filepath),
                        SubSeq(original_content, i + 5,
                               Find(original_content, ")", i + 5) - 1)))

C7_Witness ==
    /\ pc = "write_back"
    /\ Contains(filepath, "persistence")
    /\ \E i \in 1..Len(original_content) :
          /\ SimpleLeft(original_content, i)
          /\ MatchAt(original_content, "Left(\"boom\")", i)
    /\ Contains(content, "Left(PersistenceError(\"boom\", \"operation\"))")
    /\ Contains(content, "SzorkResult[Unit]")

(***************************************************************************)
(* C8: when the lines of the content that start with 'import ' are         *)
(* pairwise different, so are those of add_imports(content).               *)
(***************************************************************************)
DistinctImports(s) ==
    \A i, j \in ImportPlaces(s) : i # j => split(s)[i] # split(s)[j]

C8_NoDuplicateImports ==
    (pc = "signatures" /\ DistinctImports(original_content))
        => DistinctImports(content)

(***************************************************************************)
(* C9: within a run a file is read once and written at most once, a write  *)
(* comes right after the read of the same file and only when the content   *)
(* read holds a legacy signature; files are opened in the order of the     *)
(* walk.                                                                   *)
(***************************************************************************)
C9_ReadClassifyWrite ==
    /\ \A k, l \in 1..Len(io) : k # l => io[k] # io[l]
    /\ \A k, l \in 1..Len(io) : k < l => io[k][2] <= io[l][2]
    /\ \A k \in Writes : k > 1 /\ io[k - 1] = <<"r", io[k][2]>>
    /\ pc \in {"add_imports", "signatures", "left", "logger", "write_back"} =>
          /\ Legacy(original_content)
          /\ original_content = fs[idx]
          /\ io[Len(io)] = <<"r", idx>>
    /\ (pc = "returned" /\ Opened("w", idx)) => Legacy(original_content)

C9_Witness ==
    /\ pc = "done"
    /\ \E i, j \in 1..Len(paths) :
          /\ Opened("w", i)
          /\ Opened("r", j)
          /\ ~Opened("w", j)
          /\ Contains(fs[j], "Left(")

(***************************************************************************)
(* C10: once reading or writing a file has failed the run has halted at    *)
(* that file: no summary and no review list is printed, the run is not     *)
(* done, and no file after it is opened.                                   *)
(***************************************************************************)
C10_FailFast ==
    raised =>
        /\ pc = "halted"
        /\ \A k \in 1..Len(out) : out[k][1] = "Migrated"
        /\ \A k \in 1..Len(io) : io[k][2] <= idx

C10_Witness ==
    /\ raised
    /\ idx < Len(paths)
    /\ is_scala(paths[idx + 1])
    /\ ~ExcludedPath(paths[idx + 1])
    /\ fs[idx] = ""
    /\ original_content # ""

====
